---- MODULE Spec2Model ----
(***************************************************************************)
(* omp_kmeans() of src/kmeans/omp_kmeans.c as a state machine (Spec), and  *)
(* the two implementations of omp::matrix_multiplication of                *)
(* src/matrix_mul/omp (SpecMul).                                           *)
(*                                                                         *)
(* The main thread runs  entry -> loop -> scan -> reduce -> update ->      *)
(* test -> (loop | done).  During "scan" the team of nthreads workers runs *)
(* the body of the "omp for": every worker takes the points of its share   *)
(* one after the other and walks through the statements of lines 166-186.  *)
(* The loop index k is declared at function scope (line 81) and is not in  *)
(* the private() list of line 162, so the workers share it: every read     *)
(* and write of k is a step of its own and the steps of the workers        *)
(* interleave.                                                             *)
(*                                                                         *)
(* Numbers.  Coordinates of the input are small naturals.  A centre is the *)
(* quotient of an integer sum by a count of at most MaxPoints, so it is    *)
(* held exactly as a multiple of 1/Scale; squared distances are multiples  *)
(* of 1/Scale^2.  The float type is read as exact arithmetic on these      *)
(* values.  A threshold is the fraction <<num, den>>.                      *)
(*                                                                         *)
(* History.  prev_membership, bodies and writers record what the code does *)
(* not keep: the assignment an iteration started from, the number of loop  *)
(* bodies entered, and which worker has stored to which shared location.   *)
(***************************************************************************)
EXTENDS Integers, Sequences, FiniteSets, TLC

\* ------------------------------------------------------------- bounds
\* Largest number of points of an enumerated call.
MaxObjs == 3
\* Coordinates of the enumerated points range over 0..MaxCoord.
MaxCoord == 1
\* Largest team (omp_get_max_threads()).
MaxThreads == 2
\* Largest number of coordinates of an enumerated point.
MaxDims == 1

\* ---------------------------------------------------------- constants
\* The iteration cap in the loop condition.
MaxLoop == 500
\* membership[i] before the first iteration.
Unassigned == -1

\* ------------------------------------------------------------ helpers
Idx(n) == 0 .. (n - 1)

Max2(a, b) == IF a >= b THEN a ELSE b

RECURSIVE Gcd(_, _)
Gcd(a, b) == IF b = 0 THEN a ELSE Gcd(b, a % b)

RECURSIVE LcmUpTo(_)
LcmUpTo(n) == IF n <= 1 THEN 1 ELSE (LcmUpTo(n - 1) * n) \div Gcd(LcmUpTo(n - 1), n)

\* Number of points of the largest call (the four-point scenario included).
MaxPoints == Max2(MaxObjs, 4)

\* A centre coordinate c is stored as the integer c * Scale.
Scale == LcmUpTo(MaxPoints)

Sq(x) == x * x

\* Sum of f[i] for i in 0..n-1.
RECURSIVE SumTo(_, _)
SumTo(f, n) == IF n <= 0 THEN 0 ELSE f[n - 1] + SumTo(f, n - 1)

Zeros(n) == [i \in Idx(n) |-> 0]

\* Number of rows of an array indexed from 0.
Len0(f) == Cardinality(DOMAIN f)

VARIABLES
  \* the arguments of the call and the size of the team
  objects, numCoords, numObjs, numClusters, threshold, nthreads,
  \* omp_kmeans' variables
  clusters, membership, newClusterSize, newClusters,
  local_newClusterSize, local_newClusters,
  magnitude, delta, loop, k,
  \* control
  pc, team, owner,
  \* history: membership at the start of the current iteration, and the
  \* number of times the body of the do-loop has been entered
  prev_membership, bodies,
  \* history: for each location the team shares, the workers that have
  \* stored to it since the last fork
  writers,
  \* matrix_multiplication: the implementation called, its dimension, the
  \* element of the result buffer that is followed, what that element
  \* holds, and the number of calls made so far
  mul

args == <<objects, numCoords, numObjs, numClusters, threshold, nthreads>>
heap == <<clusters, newClusterSize, newClusters, local_newClusterSize, local_newClusters>>
vars == <<objects, numCoords, numObjs, numClusters, threshold, nthreads,
          clusters, membership, newClusterSize, newClusters,
          local_newClusterSize, local_newClusters,
          magnitude, delta, loop, k, pc, team, owner, prev_membership, bodies, writers, mul>>

\* ---------------------------------------------------- pure functions

\* euclid_dist_2(): squared distance of a point (raw coordinates) and a
\* centre (scaled coordinates), in units of 1/Scale^2.
RECURSIVE euclid_dist_2(_, _, _)
euclid_dist_2(numdims, coord1, coord2) ==
  IF numdims <= 0 THEN 0
  ELSE euclid_dist_2(numdims - 1, coord1, coord2)
       + Sq(coord1[numdims - 1] * Scale - coord2[numdims - 1])

\* (int)(1.0 / threshold): the quotient den/num truncated towards zero.
Magnitude(t) ==
  IF t[1] > 0 THEN t[2] \div t[1] ELSE -(t[2] \div (-t[1]))

\* A tie replaces the running minimum.
IsNearerOrEqual(dist, min_dist) == dist <= min_dist

\* Line 175: the test that replaces the running minimum.
IsNearer(dist, min_dist) == dist < min_dist

\* Line 177: the value stored in index when centre j is nearer to point i.
NearerIndex(i, j) == i

\* A point counts when its membership changes.
DeltaStepChanged(old, index) == IF old # index THEN 1 ELSE 0

\* Line 181: what one point adds to delta.
DeltaStep(old, index) == IF old = index THEN 1 ELSE 0

\* A centre is recomputed only from three points on.
NewCenterAboveTwo(old, sum, size) == IF size > 2 THEN (sum * Scale) \div size ELSE old

\* Lines 206-207: the new value of one centre coordinate.
NewCenter(old, sum, size) ==
  IF size > 1 THEN (sum * Scale) \div size ELSE old

\* The loop goes on while the scaled delta does not exceed numObjs.
KeepLoopingInverted(d, n, l) == d <= n /\ l < MaxLoop

\* Line 214: the loop condition, on the scaled delta and the loop counter
\* before its increment.
KeepLooping(d, n, l) == d > n /\ l < MaxLoop

\* ---------------------------------------------------------- the calls

\* Thresholds of the enumerated calls: 1, 3/4 (its reciprocal is not an
\* integer) and 1/2.  All three are exact as a float.
Thresholds == {<<1, 1>>, <<3, 4>>, <<1, 2>>}

\* The float nearest to 0.01 is 5368709 / 2^29.
Threshold001 == <<5368709, 536870912>>

Call(o, m, n, c, t, w) ==
  [objects |-> o, numCoords |-> m, numObjs |-> n, numClusters |-> c,
   threshold |-> t, nthreads |-> w]

\* The point sets: n points of m coordinates each.
Points(n, m) == [Idx(n) -> [Idx(m) -> 0 .. MaxCoord]]

\* Calls that keep the contract of the entry point: points non-empty,
\* numClusters <= number of points, numCoords > 0, threshold in (0, 1].
WellFormedCalls ==
  UNION { { Call(o, m, n, c, t, w) : o \in Points(n, m), c \in 1 .. n } :
            n \in 1 .. MaxObjs, m \in 1 .. MaxDims,
            t \in Thresholds, w \in 1 .. MaxThreads }

\* The calls the malformed ones are derived from: one worker, threshold 1,
\* every point at the origin.
BaseCalls ==
  { c \in WellFormedCalls :
      /\ c.nthreads = 1
      /\ c.threshold = <<1, 1>>
      /\ \A i \in DOMAIN c.objects : \A d \in DOMAIN c.objects[i] : c.objects[i][d] = 0 }

\* Calls that break the contract in one argument.  objects always holds
\* at least numClusters rows, so that line 109 reads inside the array.
MalformedCalls ==
  UNION { { [c EXCEPT !.numObjs = -1],
            [c EXCEPT !.numObjs = 0],
            [c EXCEPT !.numObjs = c.numClusters - 1],
            [c EXCEPT !.numCoords = 0],
            [c EXCEPT !.threshold = <<-1, 1>>] } : c \in BaseCalls }

\* Scenario A: the points (0,0), (0,1), (10,0), (10,1), two clusters,
\* threshold 0.01.
ScenarioAPoints ==
  [i \in Idx(4) |-> [d \in Idx(2) |-> IF d = 0 THEN (IF i < 2 THEN 0 ELSE 10)
                                               ELSE i % 2]]

ScenarioACalls ==
  { Call(ScenarioAPoints, 2, 4, 2, Threshold001, w) : w \in 1 .. MaxThreads }

Calls == WellFormedCalls \cup MalformedCalls

\* The call in progress keeps the contract of the entry point.
WellFormed ==
  /\ numObjs >= 1
  /\ numObjs = Len0(objects)
  /\ numClusters >= 1 /\ numClusters <= numObjs
  /\ numCoords >= 1
  /\ threshold[1] > 0 /\ threshold[1] <= threshold[2]

\* ------------------------------------------------------------ workers

\* A worker between two points: i is the last point it has finished (-1
\* when none), delta its private copy of the reduction variable.
Idle(i, d) ==
  [pc |-> "idle", i |-> i, j |-> 0, index |-> 0, min_dist |-> 0, dist |-> 0,
   delta |-> d]

\* The points of worker w's share that it has not taken yet.
Share(w) == { i \in DOMAIN owner : owner[i] = w /\ i > team[w].i }

\* The least element of a non-empty set of integers.
Least(S) == CHOOSE x \in S : \A y \in S : x <= y

\* What (coord1[k] - coord2[k])^2 can be when k is outside the row: the
\* two operands are whatever lies behind the rows.
StrayTerms == {0, Sq(Scale)}

\* Line 173: the term added to dist for the value of k read.
Term(i, j, kk) ==
  IF kk < numCoords
  THEN {Sq(objects[i][kk] * Scale - clusters[j][kk])}
  ELSE StrayTerms

\* local_newClusterSize[tid][index] and local_newClusters[tid][index] are
\* element tid * numClusters + index of one allocation of
\* nthreads * numClusters elements (lines 130-134, 139-143).
Flat(tid, index) == tid * numClusters + index

\* What the stores of lines 183-186 can do: inside the allocation they hit
\* element Flat(tid, index); outside it the run either aborts or goes on
\* with the stores landing in memory the function does not read back.
StoreOutcomes(tid, index) ==
  IF Flat(tid, index) < nthreads * numClusters THEN {"inside"} ELSE {"abort", "stray"}

\* Nobody has stored to k (line 81), to an element of membership or to an
\* element of the per-worker accumulators.
NoWrites ==
  [k |-> {},
   membership |-> [i \in Idx(numObjs) |-> {}],
   local |-> [f \in Idx(nthreads * numClusters) |-> {}]]

\* ------------------------------------------- C13: matrix multiplication
\*
\* The two implementations of omp::matrix_multiplication.  A product
\* sq_matrix_1[a] * sq_matrix_2[b] is the pair <<a, b>> of the two flat
\* indices; the value of an element of the result is the sequence of the
\* products added to it since it was last cleared, so that a product added
\* twice, left out, or taken from the wrong place shows.  mul follows one
\* element of the result buffer, mul.cell.

\* matrix_mul.cpp, line 37: from this dimension on the blocked path runs.
BlockMulMinDim == 256

\* matrix_mul.cpp, line 43: the largest block the blocked path uses.
MaxBlkRange == 128

\* matrix_mul4.cc, line 36.
block_size4 == 64

\* The dimensions 1 .. MaxMulDim are checked at every element of the
\* result, the larger ones at three elements.
MaxMulDim == 3

\* The number of calls made on one result buffer.
MaxCalls == 2

\* An element of the result buffer that holds what an earlier use left.
Junk == <<"junk">>

\* The smallest of two numbers (std::min).
Min2(a, b) == IF a < b THEN a ELSE b

\* The concatenation of the sequences F[x], x in S.
RECURSIVE Concat(_, _)
Concat(S, F) ==
  IF S = {} THEN <<>>
  ELSE LET x == CHOOSE y \in S : TRUE
       IN F[x] \o Concat(S \ {x}, F)

\* What the += of several iterations of one parallel loop leave in an
\* element: every product when one iteration alone stores to it or the
\* update is atomic; otherwise an update may also be overwritten by a
\* concurrent one.
Outcomes(terms, iterations, atomic) ==
  IF Cardinality(iterations) > 1 /\ ~atomic THEN {terms, Tail(terms)} ELSE {terms}

\* matrix_mul.cpp, lines 43-47: the largest divisor of sq_dimension that is
\* at most blk.
RECURSIVE blk_range(_, _)
blk_range(sq_dimension, blk) ==
  IF sq_dimension % blk # 0 THEN blk_range(sq_dimension, blk - 1) ELSE blk

\* Always take the four-product branch.
UnrolledPastEnd(count, block_size) == TRUE

\* matrix_mul.cpp, line 157: the four-product branch is taken.
Unrolled(count, block_size) == count + 4 < block_size

\* matrix_mul.cpp, lines 109-169: the products matrix_multiplication_subblock
\* adds to result[row * sq_dimension + col] from count on; m1 and m2 are
\* the offsets of the two blocks in their matrices.
RECURSIVE matrix_multiplication_subblock(_, _, _, _, _, _, _)
matrix_multiplication_subblock(m1, m2, row, col, count, block_size, sq_dimension) ==
  LET P(d) == <<m1 + row * sq_dimension + count + d,
                m2 + (count + d) * sq_dimension + col>>
  IN IF count >= block_size THEN <<>>
     ELSE IF Unrolled(count, block_size)
          THEN <<P(0), P(1), P(2), P(3)>>
               \o matrix_multiplication_subblock(m1, m2, row, col, count + 4,
                                                 block_size, sq_dimension)
          ELSE <<P(0)>>
               \o matrix_multiplication_subblock(m1, m2, row, col, count + 1,
                                                 block_size, sq_dimension)

\* matrix_mul.cpp, lines 65-72: the calls for the blocks k, k + b, ... of
\* one block (i, j) of the result, seen from its element (row, col).
RECURSIVE BlockedFrom(_, _, _, _, _, _, _)
BlockedFrom(i, j, row, col, kk, b, sq_dimension) ==
  IF kk >= sq_dimension THEN <<>>
  ELSE matrix_multiplication_subblock(i * sq_dimension + kk, kk * sq_dimension + j,
                                      row, col, 0, b, sq_dimension)
       \o BlockedFrom(i, j, row, col, kk + b, b, sq_dimension)

\* matrix_mul.cpp, lines 57-76 and 107-108: the <<j, i, row, col>> of the
\* blocked path whose stores go to element cell of the result.
BlockedHits(sq_dimension, cell, b) ==
  LET starts == { n * b : n \in Idx(sq_dimension \div b) }
  IN { h \in starts \X starts \X Idx(b) \X Idx(b) :
         (h[2] * sq_dimension + h[1]) + (h[3] * sq_dimension + h[4]) = cell }

\* matrix_mul.cpp, lines 41-77: what the blocked path can leave in element
\* cell.  The iterations of the parallel loop are the values of j.
Blocked(sq_dimension, cell) ==
  LET b == blk_range(sq_dimension, MaxBlkRange)
      hits == BlockedHits(sq_dimension, cell, b)
      F == [h \in hits |-> BlockedFrom(h[2], h[1], h[3], h[4], 0, b, sq_dimension)]
  IN Outcomes(Concat(hits, F), { h[1] : h \in hits }, FALSE)

\* matrix_mul.cpp, lines 80-89: what the plain path can leave in element
\* cell.  The iterations of the parallel loop are the values of i.
Naive(sq_dimension, cell) ==
  LET hits == { h \in Idx(sq_dimension) \X Idx(sq_dimension) :
                  h[1] * sq_dimension + h[2] = cell }
      F == [h \in hits |->
              [n \in 1 .. sq_dimension |->
                 <<h[1] * sq_dimension + (n - 1), (n - 1) * sq_dimension + h[2]>>]]
  IN Outcomes(Concat(hits, F), { h[1] : h \in hits }, FALSE)

\* matrix_mul4.cc, lines 39-47: what the parallel region of the blocks kk,
\* jj can add to element cell.  Its iterations are the triples (i, k, j) of
\* the collapsed loops; the update of line 44 is atomic (line 43).
Region4(sq_dimension, cell, kk, jj, block_size) ==
  LET hits == { h \in Idx(sq_dimension)
                      \X (jj .. Min2(sq_dimension, jj + block_size) - 1) :
                  sq_dimension * h[1] + h[2] = cell }
      its == { <<h[1], kx, h[2]>> :
                 h \in hits, kx \in kk .. Min2(sq_dimension, kk + block_size) - 1 }
      F == [t \in its |->
              << <<sq_dimension * t[1] + t[2], sq_dimension * t[2] + t[3]>> >>]
  IN Outcomes(Concat(its, F), its, TRUE)

\* matrix_mul4.cc, lines 37-49: the regions from (kk, jj) on, in the order
\* of the two serial loops.
RECURSIVE Blocked4(_, _, _, _, _)
Blocked4(sq_dimension, cell, kk, jj, block_size) ==
  IF kk >= sq_dimension THEN {<<>>}
  ELSE IF jj >= sq_dimension
       THEN Blocked4(sq_dimension, cell, kk + block_size, 0, block_size)
       ELSE { x \o y : x \in Region4(sq_dimension, cell, kk, jj, block_size),
                       y \in Blocked4(sq_dimension, cell, kk, jj + block_size,
                                      block_size) }

\* memset (matrix_mul.cpp line 35, matrix_mul4.cc line 35): whatever the
\* element held, it holds the empty sum.
memset(old) == <<>>

\* Below MaxMulDim every dimension; then the dimensions around the sizes at
\* which the code changes path or starts a further block.
MulDims(impl) ==
  (1 .. MaxMulDim)
  \cup (IF impl = "matrix_mul.cpp"
        THEN (BlockMulMinDim - 1) .. (BlockMulMinDim + 4)
        ELSE {block_size4 - 1, block_size4, block_size4 + 1, 2 * block_size4 + 2})

\* The elements followed: all of them for a small matrix, otherwise the
\* four corners, the last of the middle row and the middle of the last row.
MulCells(sq_dimension) ==
  IF sq_dimension <= MaxMulDim
  THEN Idx(sq_dimension * sq_dimension)
  ELSE {0, sq_dimension - 1,
        (sq_dimension \div 2) * sq_dimension + sq_dimension - 1,
        (sq_dimension - 1) * sq_dimension,
        (sq_dimension - 1) * sq_dimension + sq_dimension \div 2,
        sq_dimension * sq_dimension - 1}

\* No call of matrix_multiplication is followed.
NoMul == [impl |-> "none", sq_dimension |-> 0, cell |-> 0, result |-> <<>>, calls |-> 0]

\* The followed element before the first call: zero, or what an earlier use
\* of the buffer left.
MulCall(impl, sq_dimension, cell, old) ==
  [impl |-> impl, sq_dimension |-> sq_dimension, cell |-> cell, result |-> old,
   calls |-> 0]

MulCalls ==
  UNION { UNION { { MulCall(impl, d, c, old) : c \in MulCells(d), old \in {<<>>, Junk} } :
                    d \in MulDims(impl) } :
            impl \in {"matrix_mul.cpp", "matrix_mul4.cc"} }

\* ---------------------------------------------------------------- Init

\* The state on entry to omp_kmeans for call c.  Nothing has been allocated
\* or written; loop is 0 (line 81).  magnitude, delta and k hold no value
\* yet: each is written (lines 85, 154, 172) before it is first read, so the
\* 0 they carry here is never observed.
InitCall(c) ==
  /\ objects = c.objects
  /\ numCoords = c.numCoords
  /\ numObjs = c.numObjs
  /\ numClusters = c.numClusters
  /\ threshold = c.threshold
  /\ nthreads = c.nthreads
  /\ clusters = <<>>
  /\ membership = <<>>
  /\ newClusterSize = <<>>
  /\ newClusters = <<>>
  /\ local_newClusterSize = <<>>
  /\ local_newClusters = <<>>
  /\ magnitude = 0
  /\ delta = 0
  /\ loop = 0
  /\ k = 0
  /\ pc = "entry"
  /\ team = <<>>
  /\ owner = <<>>
  /\ prev_membership = <<>>
  /\ bodies = 0
  /\ writers = NoWrites

Init == mul = NoMul /\ \E c \in Calls : InitCall(c)

InitA == mul = NoMul /\ \E c \in ScenarioACalls : InitCall(c)

\* Lines 107-109: the first numClusters points as the initial centres.
InitialClusters ==
  [i \in Idx(numClusters) |-> [j \in Idx(numCoords) |-> objects[i][j] * Scale]]

\* ------------------------------------------------------------- actions

\* Lines 85-150: magnitude, the initial centres (the first numClusters
\* points), membership[] = -1, and the zeroed accumulators.
Setup ==
  /\ pc = "entry"
  /\ magnitude' = Magnitude(threshold)
  /\ clusters' = InitialClusters
  /\ membership' = [i \in Idx(numObjs) |-> Unassigned]
  /\ newClusterSize' = Zeros(numClusters)
  /\ newClusters' = [i \in Idx(numClusters) |-> Zeros(numCoords)]
  /\ local_newClusterSize' = Zeros(nthreads * numClusters)
  /\ local_newClusters' = [f \in Idx(nthreads * numClusters) |-> Zeros(numCoords)]
  /\ pc' = "loop"
  /\ UNCHANGED <<mul, args, delta, loop, k, team, owner, prev_membership, bodies, writers>>

\* Lines 153-164: delta = 0 and the fork.  The share of each worker is the
\* schedule's choice; every worker starts with a private delta of 0.
BeginIter ==
  /\ pc = "loop"
  /\ delta' = 0
  /\ \E o \in [Idx(numObjs) -> Idx(nthreads)] : owner' = o
  /\ team' = [w \in Idx(nthreads) |-> Idle(-1, 0)]
  /\ prev_membership' = membership
  /\ bodies' = bodies + 1
  /\ writers' = NoWrites
  /\ pc' = "scan"
  /\ UNCHANGED <<mul, args, heap, membership, magnitude, loop, k>>

\* Lines 165-169: the worker takes its next point i, index = 0, min_dist
\* is the distance to centre 0, j = 1.
Take(w) ==
  /\ pc = "scan"
  /\ team[w].pc = "idle"
  /\ Share(w) # {}
  /\ LET i == Least(Share(w))
     IN team' = [team EXCEPT ![w] =
                   [@ EXCEPT !.pc = "jtest", !.i = i, !.j = 1, !.index = 0,
                             !.min_dist = euclid_dist_2(numCoords, objects[i], clusters[0]),
                             !.dist = 0]]
  /\ UNCHANGED <<mul, args, heap, membership, magnitude, delta, loop, k, pc, owner,
                 prev_membership, bodies, writers>>

\* Lines 169-172: j < numClusters; when it holds, dist = 0 and k = 0.
JTest(w) ==
  /\ pc = "scan"
  /\ team[w].pc = "jtest"
  /\ IF team[w].j < numClusters
     THEN /\ team' = [team EXCEPT ![w] = [@ EXCEPT !.pc = "ktest", !.dist = 0]]
          /\ k' = 0
          /\ writers' = [writers EXCEPT !.k = @ \cup {w}]
     ELSE /\ team' = [team EXCEPT ![w] = [@ EXCEPT !.pc = "store"]]
          /\ k' = k
          /\ writers' = writers
  /\ UNCHANGED <<mul, args, heap, membership, magnitude, delta, loop, pc, owner,
                 prev_membership, bodies>>

\* Line 172: k < numCoords; when it fails, lines 175-178 and j++.
KTest(w) ==
  /\ pc = "scan"
  /\ team[w].pc = "ktest"
  /\ IF k < numCoords
     THEN team' = [team EXCEPT ![w] = [@ EXCEPT !.pc = "kbody"]]
     ELSE team' = [team EXCEPT ![w] =
            [@ EXCEPT !.pc = "jtest", !.j = @ + 1,
                      !.min_dist = IF IsNearer(team[w].dist, team[w].min_dist)
                                   THEN team[w].dist ELSE @,
                      !.index = IF IsNearer(team[w].dist, team[w].min_dist)
                                THEN NearerIndex(team[w].i, team[w].j) ELSE @]]
  /\ UNCHANGED <<mul, args, heap, membership, magnitude, delta, loop, k, pc, owner,
                 prev_membership, bodies, writers>>

\* Line 173: dist += (coord1[k] - coord2[k])^2 for the k read now.
KBody(w) ==
  /\ pc = "scan"
  /\ team[w].pc = "kbody"
  /\ \E t \in Term(team[w].i, team[w].j, k) :
       team' = [team EXCEPT ![w] = [@ EXCEPT !.pc = "kincr", !.dist = @ + t]]
  /\ UNCHANGED <<mul, args, heap, membership, magnitude, delta, loop, k, pc, owner,
                 prev_membership, bodies, writers>>

\* Line 172: k++.
KIncr(w) ==
  /\ pc = "scan"
  /\ team[w].pc = "kincr"
  /\ k' = k + 1
  /\ writers' = [writers EXCEPT !.k = @ \cup {w}]
  /\ team' = [team EXCEPT ![w] = [@ EXCEPT !.pc = "ktest"]]
  /\ UNCHANGED <<mul, args, heap, membership, magnitude, delta, loop, pc, owner,
                 prev_membership, bodies>>

\* Lines 181-186: delta, membership[i] = index, and the worker's
\* accumulators for index.
Store(w) ==
  /\ pc = "scan"
  /\ team[w].pc = "store"
  /\ LET i == team[w].i
         index == team[w].index
         f == Flat(w, index)
     IN /\ membership' = [membership EXCEPT ![i] = index]
        /\ team' = [team EXCEPT ![w] =
                      Idle(i, team[w].delta + DeltaStep(membership[i], index))]
        /\ \E out \in StoreOutcomes(w, index) :
             /\ pc' = IF out = "abort" THEN "crashed" ELSE "scan"
             /\ local_newClusterSize' =
                  IF out = "inside"
                  THEN [local_newClusterSize EXCEPT ![f] = @ + 1]
                  ELSE local_newClusterSize
             /\ local_newClusters' =
                  IF out = "inside"
                  THEN [local_newClusters EXCEPT ![f] =
                          [j \in Idx(numCoords) |-> @[j] + objects[i][j]]]
                  ELSE local_newClusters
             /\ writers' =
                  IF out = "inside"
                  THEN [writers EXCEPT !.membership[i] = @ \cup {w},
                                       !.local[f] = @ \cup {w}]
                  ELSE [writers EXCEPT !.membership[i] = @ \cup {w}]
  /\ UNCHANGED <<mul, args, clusters, newClusterSize, newClusters, magnitude, delta,
                 loop, k, owner, prev_membership, bodies>>

\* The join without the barrier: the main thread goes on while workers
\* still have points to do.
JoinEarly ==
  /\ pc = "scan"
  /\ delta' = delta + SumTo([w \in Idx(nthreads) |-> team[w].delta], nthreads)
  /\ team' = <<>>
  /\ owner' = <<>>
  /\ pc' = "reduce"
  /\ UNCHANGED <<mul, args, heap, membership, magnitude, loop, k, prev_membership,
                 bodies, writers>>

\* Line 189: the end of the parallel region.  Every worker has finished
\* its share; the private deltas are added to delta.
Join ==
  /\ pc = "scan"
  /\ \A w \in Idx(nthreads) : team[w].pc = "idle" /\ Share(w) = {}
  /\ delta' = delta + SumTo([w \in Idx(nthreads) |-> team[w].delta], nthreads)
  /\ team' = <<>>
  /\ owner' = <<>>
  /\ pc' = "reduce"
  /\ UNCHANGED <<mul, args, heap, membership, magnitude, loop, k, prev_membership, bodies, writers>>

\* Lines 192-201: the main thread adds every worker's accumulators to the
\* global ones and zeroes them.
Reduce ==
  /\ pc = "reduce"
  /\ newClusterSize' =
       [i \in Idx(numClusters) |->
          newClusterSize[i]
          + SumTo([j \in Idx(nthreads) |-> local_newClusterSize[Flat(j, i)]], nthreads)]
  /\ newClusters' =
       [i \in Idx(numClusters) |->
          [c \in Idx(numCoords) |->
             newClusters[i][c]
             + SumTo([j \in Idx(nthreads) |-> local_newClusters[Flat(j, i)][c]], nthreads)]]
  /\ local_newClusterSize' = Zeros(nthreads * numClusters)
  /\ local_newClusters' = [f \in Idx(nthreads * numClusters) |-> Zeros(numCoords)]
  /\ pc' = "update"
  /\ UNCHANGED <<mul, args, clusters, membership, magnitude, delta, loop, k, team, owner,
                 prev_membership, bodies, writers>>

\* The centre update without line 210: the counts are not zeroed.
UpdateKeepsSize ==
  /\ pc = "update"
  /\ clusters' =
       [i \in Idx(numClusters) |->
          [j \in Idx(numCoords) |->
             NewCenter(clusters[i][j], newClusters[i][j], newClusterSize[i])]]
  /\ newClusters' = [i \in Idx(numClusters) |-> Zeros(numCoords)]
  /\ pc' = "test"
  /\ UNCHANGED <<mul, args, membership, newClusterSize, local_newClusterSize,
                 local_newClusters, magnitude, delta, loop, k, team, owner,
                 prev_membership, bodies, writers>>

\* Lines 204-211: the centres that received more than one point become the
\* mean of their points; the global accumulators are zeroed.
Update ==
  /\ pc = "update"
  /\ clusters' =
       [i \in Idx(numClusters) |->
          [j \in Idx(numCoords) |->
             NewCenter(clusters[i][j], newClusters[i][j], newClusterSize[i])]]
  /\ newClusters' = [i \in Idx(numClusters) |-> Zeros(numCoords)]
  /\ newClusterSize' = Zeros(numClusters)
  /\ pc' = "test"
  /\ UNCHANGED <<mul, args, membership, local_newClusterSize, local_newClusters,
                 magnitude, delta, loop, k, team, owner, prev_membership, bodies, writers>>

\* Lines 212-214: delta *= magnitude, then delta > numObjs && loop++ < 500.
\* loop++ is evaluated only when delta > numObjs.
Test ==
  /\ pc = "test"
  /\ LET d == delta * magnitude
     IN /\ delta' = d
        /\ loop' = IF d > numObjs THEN loop + 1 ELSE loop
        /\ pc' = IF KeepLooping(d, numObjs, loop) THEN "loop" ELSE "done"
  /\ UNCHANGED <<mul, args, heap, membership, magnitude, k, team, owner,
                 prev_membership, bodies, writers>>

Next ==
  \/ Setup
  \/ BeginIter
  \/ \E w \in Idx(nthreads) : Take(w)
  \/ \E w \in Idx(nthreads) : JTest(w)
  \/ \E w \in Idx(nthreads) : KTest(w)
  \/ \E w \in Idx(nthreads) : KBody(w)
  \/ \E w \in Idx(nthreads) : KIncr(w)
  \/ \E w \in Idx(nthreads) : Store(w)
  \/ Join
  \/ Reduce
  \/ Update
  \/ Test

Spec == Init /\ [][Next]_vars

\* The calls of scenario A alone.
SpecA == InitA /\ [][Next]_vars

\* ------------------------------------------------- what a run returns

\* The stop reason, read off delta when the loop has been left: the loop
\* is left with delta > numObjs only by the cap.
StopReason == IF delta > numObjs THEN "MAX_ITERATIONS_REACHED" ELSE "CONVERGED"

\* Number of points whose membership the current iteration has changed.
Changed ==
  Cardinality({ i \in DOMAIN membership : membership[i] # prev_membership[i] })

\* ceil(1 / threshold) for a positive threshold.
CeilRecip(t) == (t[2] + t[1] - 1) \div t[1]

\* ------------------------------------- one iteration without interleaving

\* Lines 166-179 for point i against the centres cl, from centre j on, when
\* no other worker touches k.
RECURSIVE ScanFrom(_, _, _, _, _)
ScanFrom(i, cl, j, index, min_dist) ==
  IF j >= numClusters THEN index
  ELSE LET dist == euclid_dist_2(numCoords, objects[i], cl[j])
       IN IF IsNearer(dist, min_dist)
          THEN ScanFrom(i, cl, j + 1, NearerIndex(i, j), dist)
          ELSE ScanFrom(i, cl, j + 1, index, min_dist)

SeqIndex(i, cl) ==
  ScanFrom(i, cl, 1, 0, euclid_dist_2(numCoords, objects[i], cl[0]))

\* Lines 154-211 when worker 0 runs the whole loop alone and a store
\* outside the accumulators goes astray: the membership, the centres and
\* the delta of the iteration that starts from centres cl and membership mem.
SeqIterate(cl, mem) ==
  LET idx == [i \in Idx(numObjs) |-> SeqIndex(i, cl)]
      \* the points whose stores reach the accumulators of centre c
      into(c) == { i \in Idx(numObjs) :
                     /\ Flat(0, idx[i]) < nthreads * numClusters
                     /\ idx[i] % numClusters = c }
      size(c) == Cardinality(into(c))
      RECURSIVE sum(_, _)
      sum(S, d) == IF S = {} THEN 0
                   ELSE LET i == CHOOSE x \in S : TRUE
                        IN objects[i][d] + sum(S \ {i}, d)
  IN [membership |-> idx,
      clusters |-> [c \in Idx(numClusters) |->
                      [d \in Idx(numCoords) |-> NewCenter(cl[c][d], sum(into(c), d), size(c))]],
      delta |-> SumTo([i \in Idx(numObjs) |-> DeltaStep(mem[i], idx[i])], numObjs)]

\* The whole loop, iteration after iteration, from loop counter l.
RECURSIVE SeqRun(_, _, _)
SeqRun(cl, mem, l) ==
  LET it == SeqIterate(cl, mem)
  IN IF KeepLooping(it.delta * magnitude, numObjs, l)
     THEN SeqRun(it.clusters, it.membership, l + 1)
     ELSE it

\* -------------------------------------------------------------- claims

\* C1: every entry of the membership array a run returns is an index in
\* [0, numClusters): never the sentinel -1, never a point index >=
\* numClusters.
C1_MembershipInRange ==
  (pc = "done" /\ WellFormed) =>
    \A i \in DOMAIN membership : membership[i] \in Idx(numClusters)

\* C2: the body of the do-loop is entered at most 500 times in any run.
C2_AtMost500Bodies == bodies <= MaxLoop

\* C3: after an iteration the run is CONVERGED when
\* Changed * ceil(1/threshold) <= numObjs and goes on to the next iteration
\* (the cap permitting) when Changed * ceil(1/threshold) > numObjs.
C3_ConvergenceTest ==
  (WellFormed /\ bodies >= 1 /\ pc \in {"loop", "done"}) =>
    /\ (Changed * CeilRecip(threshold) <= numObjs)
         => (pc = "done" /\ StopReason = "CONVERGED")
    /\ (Changed * CeilRecip(threshold) > numObjs /\ bodies <= MaxLoop)
         => pc = "loop"

\* C4: the membership and the centres a run ends with are a function of
\* the call and the number of workers: they are those of the run in which
\* worker 0 executes every point alone, whatever the shares and the
\* interleaving were.
C4_Deterministic ==
  (pc = "done" /\ WellFormed) =>
    LET r == SeqRun(InitialClusters, [i \in Idx(numObjs) |-> Unassigned], 0)
    IN membership = r.membership /\ clusters = r.clusters

\* C5: a run that stops CONVERGED stops at a fixed point: one more
\* iteration from the returned centres and membership changes neither.
C5_FixedPoint ==
  (pc = "done" /\ WellFormed /\ StopReason = "CONVERGED") =>
    LET it == SeqIterate(clusters, membership)
    IN it.membership = membership /\ it.clusters = clusters

\* C6 (scenario A): the run stops CONVERGED with points 0 and 1 in one
\* cluster, points 2 and 3 in the other, and the centres (0, 0.5) and
\* (10, 0.5).
C6_ScenarioA ==
  pc = "done" =>
    /\ StopReason = "CONVERGED"
    /\ membership[0] = membership[1]
    /\ membership[2] = membership[3]
    /\ membership[0] # membership[2]
    /\ membership[0] \in Idx(numClusters) /\ membership[2] \in Idx(numClusters)
    /\ clusters[membership[0]] = [d \in Idx(2) |-> IF d = 0 THEN 0 ELSE Scale \div 2]
    /\ clusters[membership[2]] = [d \in Idx(2) |-> IF d = 0 THEN 10 * Scale ELSE Scale \div 2]

\* The points of the call are pairwise distinct.
Distinct ==
  \A i, j \in DOMAIN objects : i # j => objects[i] # objects[j]

\* All points of the call have the same coordinates.
AllSame ==
  \A i, j \in DOMAIN objects : objects[i] = objects[j]

C8_ThresholdOne ==
  (WellFormed /\ threshold = <<1, 1>>) =>
    /\ bodies <= 1
    /\ pc = "done" => (bodies = 1 /\ StopReason = "CONVERGED")

C8_Witness ==
  /\ WellFormed /\ threshold = <<1, 1>> /\ pc = "done"
  /\ numObjs >= 2 /\ Changed = numObjs
  /\ \E i \in Idx(numObjs) : membership[i] # 0

\* C9 (scenario C): when all points are identical the run never aborts and
\* ends with every point in one cluster, every other centre still at the
\* point it was initialised from.
C9_ScenarioC ==
  (WellFormed /\ AllSame) =>
    /\ pc # "crashed"
    /\ pc = "done" =>
         /\ \A i \in Idx(numObjs) : membership[i] = membership[0]
         /\ membership[0] \in Idx(numClusters)
         /\ \A c \in Idx(numClusters) \ {membership[0]} :
              clusters[c] = InitialClusters[c]

C9_Witness ==
  /\ WellFormed /\ AllSame /\ pc = "done"
  /\ numObjs = MaxObjs /\ numClusters >= 2 /\ nthreads >= 2
  /\ \A i \in Idx(numObjs) : membership[i] = 0

\* C10: a call that breaks the contract is rejected before anything
\* happens: no centre or membership is written and the body of the loop is
\* never entered.
C10_MalformedRejected ==
  ~WellFormed => (bodies = 0 /\ clusters = <<>> /\ membership = <<>>)

\* ----------------------------------------------------- C11: stop reason

\* What omp_kmeans hands back to its caller: the centres it returns (line
\* 235) and the assignment it leaves in the membership parameter (line
\* 182).  loop and delta are locals that die with the call (lines 81, 83);
\* they are printed under _debug only (lines 216-219).
Returned == [clusters |-> clusters, membership |-> membership]

\* C11: when the run has stopped, what it returns carries the stop reason,
\* and that reason is the true one: CONVERGED when the convergence test
\* held, MAX_ITERATIONS_REACHED when the cap ended the loop.
C11_StopReasonReturned ==
  pc = "done" =>
    /\ "stopReason" \in DOMAIN Returned
    /\ Returned.stopReason = StopReason

\* ------------------------------------ C13: the calls of the multiplication

\* Everything omp_kmeans reads or writes.
kmeans ==
  <<args, heap, membership, magnitude, delta, loop, k, pc, team, owner,
    prev_membership, bodies, writers>>

\* omp_kmeans is not called.
NoKmeans == Call(<<>>, 0, 0, 0, <<1, 1>>, 0)

InitMul == (\E m \in MulCalls : mul = m) /\ InitCall(NoKmeans)

\* matrix_mul.cpp, lines 33-91: memset, then the blocked path from
\* dimension 256 on and the plain path below it.
matrix_multiplication ==
  /\ mul.impl = "matrix_mul.cpp"
  /\ mul.calls < MaxCalls
  /\ \E r \in (IF mul.sq_dimension >= BlockMulMinDim
               THEN Blocked(mul.sq_dimension, mul.cell)
               ELSE Naive(mul.sq_dimension, mul.cell)) :
       mul' = [mul EXCEPT !.result = memset(@) \o r, !.calls = @ + 1]
  /\ UNCHANGED kmeans

\* matrix_mul4.cc, lines 29-50: memset, then the regions of 64 x 64 blocks.
matrix_multiplication4 ==
  /\ mul.impl = "matrix_mul4.cc"
  /\ mul.calls < MaxCalls
  /\ \E r \in Blocked4(mul.sq_dimension, mul.cell, 0, 0, block_size4) :
       mul' = [mul EXCEPT !.result = memset(@) \o r, !.calls = @ + 1]
  /\ UNCHANGED kmeans

NextMul == matrix_multiplication \/ matrix_multiplication4

SpecMul == InitMul /\ [][NextMul]_vars

\* The products whose sum is element cell of the product of two matrices
\* of dimension sq_dimension.
Products(sq_dimension, cell) ==
  { <<(cell \div sq_dimension) * sq_dimension + kx, kx * sq_dimension + (cell % sq_dimension)>> :
      kx \in Idx(sq_dimension) }

\* C13: after every call of matrix_multiplication, of either implementation
\* and on either path, the followed element of the result is the sum of the
\* products sq_matrix_1[i*dim+k] * sq_matrix_2[k*dim+j], k = 0 .. dim-1, each
\* taken once, whatever the element held before the call.
C13_Product ==
  mul.calls >= 1 =>
    /\ Len(mul.result) = mul.sq_dimension
    /\ { mul.result[n] : n \in 1 .. Len(mul.result) } = Products(mul.sq_dimension, mul.cell)

C13_Witness ==
  /\ mul.calls = MaxCalls
  /\ mul.impl = "matrix_mul.cpp"
  /\ mul.sq_dimension = BlockMulMinDim + 2
  /\ mul.cell = mul.sq_dimension * mul.sq_dimension - 1
  /\ Len(mul.result) = mul.sq_dimension

\* ------------------------------------------------ C14: nearest centre

\* Lines 57-64 of find_nearest_cluster from centre i on: the centre found
\* so far is replaced only by a strictly nearer one.
RECURSIVE find_nearest_from(_, _, _, _, _, _, _)
find_nearest_from(numClusters_, numCoords_, object, clusters_, i, index, min_dist) ==
  IF i >= numClusters_ THEN index
  ELSE LET dist == euclid_dist_2(numCoords_, object, clusters_[i])
       IN IF dist < min_dist
          THEN find_nearest_from(numClusters_, numCoords_, object, clusters_,
                                 i + 1, i, dist)
          ELSE find_nearest_from(numClusters_, numCoords_, object, clusters_,
                                 i + 1, index, min_dist)

\* Lines 46-67: the lowest index among the centres nearest to object.
find_nearest_cluster(numClusters_, numCoords_, object, clusters_) ==
  find_nearest_from(numClusters_, numCoords_, object, clusters_, 1, 0,
                    euclid_dist_2(numCoords_, object, clusters_[0]))

\* C14: when the scan of an iteration has ended (and the centres are still
\* those the iteration started with), membership[p] is, for every point p,
\* the lowest index among the centres nearest to p.
C14_NearestLowestIndex ==
  (WellFormed /\ pc \in {"reduce", "update"}) =>
    \A p \in Idx(numObjs) :
      membership[p] = find_nearest_cluster(numClusters, numCoords, objects[p], clusters)

\* ------------------------------------------- C15: the change counter

\* C15: when the scan of an iteration has ended, delta is the number of
\* points whose membership differs from the one they had when the iteration
\* started (a point that was unassigned counts).
C15_DeltaCountsChanges ==
  (WellFormed /\ pc = "reduce") => delta = Changed

\* ------------------------------------------ C16: who writes what in a scan

\* C16: during the scan no shared location is stored to by more than one
\* worker: k, like the other loop indices, is written by one worker at
\* most, membership[p] only by the worker that owns p, and an element of the
\* per-worker accumulators only by the worker whose row it lies in.
C16_OneWriterPerLocation ==
  (WellFormed /\ pc = "scan") =>
    /\ Cardinality(writers.k) <= 1
    /\ \A p \in Idx(numObjs) : writers.membership[p] \subseteq {owner[p]}
    /\ \A f \in Idx(nthreads * numClusters) :
         writers.local[f] \subseteq {f \div numClusters}

\* ------------------------------------------------- C17: the reduction

\* The points assigned to centre c.
Members(c) == { p \in Idx(numObjs) : membership[p] = c }

\* C17: when the reduction of an iteration has ended, newClusterSize[c] is
\* the number of points assigned to centre c in the iteration and
\* newClusters[c] the coordinate-wise sum of those points, for every centre
\* c; the counts add up to numObjs.
C17_ReducedTotals ==
  (WellFormed /\ pc = "update") =>
    /\ \A c \in Idx(numClusters) :
         /\ newClusterSize[c] = Cardinality(Members(c))
         /\ \A d \in Idx(numCoords) :
              newClusters[c][d] =
                SumTo([p \in Idx(numObjs) |->
                         IF p \in Members(c) THEN objects[p][d] ELSE 0], numObjs)
    /\ SumTo(newClusterSize, numClusters) = numObjs

\* ------------------------------------------------ C18: the centre update

\* C18: the centre update writes a coordinate of a centre only when the
\* centre received more than one point, and then writes the sum of the
\* coordinate over those points divided by their number; the coordinates of
\* a centre that received no point or one point stay as they are.
C18_UpdateFrame ==
  [][pc = "update" =>
       \A c \in Idx(numClusters) : \A j \in Idx(numCoords) :
         clusters'[c][j] =
           IF newClusterSize[c] > 1
           THEN (newClusters[c][j] * Scale) \div newClusterSize[c]
           ELSE clusters[c][j]]_vars

C18_Witness ==
  /\ WellFormed /\ pc = "test"
  /\ \E c \in Idx(numClusters) : clusters[c] # InitialClusters[c]
  /\ \E c \in Idx(numClusters) :
       Cardinality(Members(c)) = 1 /\ clusters[c] = InitialClusters[c]
  /\ \E c \in Idx(numClusters) : Members(c) = {}

\* --------------------------------------- C19: accumulators start at zero

\* Every counter and every coordinate sum, per worker and global, is 0.
AccumulatorsZero ==
  /\ local_newClusterSize = Zeros(nthreads * numClusters)
  /\ local_newClusters = [f \in Idx(nthreads * numClusters) |-> Zeros(numCoords)]
  /\ newClusterSize = Zeros(numClusters)
  /\ newClusters = [i \in Idx(numClusters) |-> Zeros(numCoords)]

\* The team has been forked and no worker has taken a point yet.
ScanStart == pc = "scan" /\ \A w \in Idx(nthreads) : team[w] = Idle(-1, 0)

\* C19: all accumulators are zero when an iteration is about to start and
\* when its scan starts, in the first iteration and in every later one:
\* each iteration leaves them zeroed when its centre update has ended.
C19_AccumulatorsZeroAtStart ==
  (pc \in {"loop", "test"} \/ ScanStart) => AccumulatorsZero

C19_Witness ==
  /\ WellFormed /\ pc = "test" /\ bodies = 1
  /\ numObjs = MaxObjs /\ nthreads = MaxThreads /\ numClusters >= 2
  /\ \A w \in Idx(nthreads) : writers.local[Flat(w, 0)] # {}
  /\ AccumulatorsZero

\* -------------------------------------------------- C20: phase ordering

\* C20: while the reduction, the centre update or the convergence test of
\* an iteration is pending, every worker has finished its whole share
\* (every point has been stored by its worker) and no worker is running;
\* workers run only between the fork of an iteration and its join, so none
\* scans for the next iteration before the test has been made.
C20_PhaseOrder ==
  /\ pc \in {"reduce", "update", "test"} =>
       /\ team = <<>>
       /\ \A p \in Idx(numObjs) : writers.membership[p] # {}
  /\ team # <<>> => pc \in {"scan", "crashed"}

C20_Witness ==
  /\ WellFormed /\ pc = "reduce"
  /\ numObjs = MaxObjs /\ nthreads >= 2
  /\ \A w \in Idx(nthreads) : \E p \in Idx(numObjs) : writers.membership[p] = {w}

====
